---------------------------- MODULE Spec2Model ----------------------------
(***************************************************************************)
(* Model of pipeline_tasl1.py: a scheduled extract / transform / load job. *)
(*                                                                         *)
(* A cell of a DataFrame is a record [k, n, d, s]:                         *)
(*   k = "num"   the rational n/d in lowest terms (int64 and float64)      *)
(*   k = "str"   the text s                                                *)
(*   k = "nan"   a missing value (NaN)                                     *)
(*   k = "date"  the timestamp: day s plus n nanoseconds                   *)
(*   k = "nat"   the missing timestamp (NaT)                               *)
(*   k = "null"  SQL NULL (only in the destination table)                  *)
(* A field of the CSV text is a cell with k = "num", k = "str" or          *)
(* k = "empty" (nothing between two commas).                               *)
(* Floating point is modelled by exact rationals.  pandas is modelled as   *)
(* in the 1.x / 2.x line without copy-on-write, where the in-place fillna  *)
(* on df[col] reaches the frame.                                           *)
(***************************************************************************)
EXTENDS Integers, Sequences, FiniteSets, TLC

\* Largest number of data rows of a CSV drawn for the cleaner's unit runs.
MaxRows == 3

----------------------------------------------------------------------------
\* Cells

Cell(k, n, d, s) == [k |-> k, n |-> n, d |-> d, s |-> s]

NaN == Cell("nan", 0, 1, "")

NaT == Cell("nat", 0, 1, "")

Null == Cell("null", 0, 1, "")

Empty == Cell("empty", 0, 1, "")

Num(n) == Cell("num", n, 1, "")

Str(s) == Cell("str", 0, 1, s)

Timestamp(day, ns) == Cell("date", ns, 1, day)

RECURSIVE GCD(_, _)
GCD(a, b) == IF b = 0 THEN a ELSE GCD(b, a % b)

\* The rational n/d (n >= 0, d > 0) in lowest terms.
Rat(n, d) == LET g == GCD(n, d) IN Cell("num", n \div g, d \div g, "")

RatAdd(x, y) == Rat(x.n * y.d + y.n * x.d, x.d * y.d)

RatDiv(x, c) == Rat(x.n, x.d * c)

\* isnull()
IsNull(c) == c.k \in {"nan", "nat"}

----------------------------------------------------------------------------
\* DataFrames.  None is the no-data sentinel, distinct from a frame with no rows.

None == [none |-> TRUE, columns |-> <<>>, dtypes |-> <<>>, rows |-> <<>>]

DataFrame(columns, dtypes, rows) ==
    [none |-> FALSE, columns |-> columns, dtypes |-> dtypes, rows |-> rows]

NCols(df) == Len(df.columns)

Column(df, j) == [i \in 1..Len(df.rows) |-> df.rows[i][j]]

\* df with column j replaced by the cells col[1..] and its dtype by dt.
SetColumn(df, j, col, dt) ==
    [df EXCEPT !.rows = [i \in 1..Len(df.rows) |-> [df.rows[i] EXCEPT ![j] = col[i]]],
               !.dtypes = [df.dtypes EXCEPT ![j] = dt]]

RECURSIVE SumCells(_, _)
\* Sum of the present cells among col[1..i]  (Series.sum, skipna).
SumCells(col, i) ==
    IF i = 0 THEN Num(0)
    ELSE IF IsNull(col[i]) THEN SumCells(col, i - 1)
    ELSE RatAdd(SumCells(col, i - 1), col[i])

Count(col) == Cardinality({i \in DOMAIN col : ~IsNull(col[i])})

HasNull(col) == \E i \in DOMAIN col : IsNull(col[i])

\* A mean that divides by the length of the column.
MeanMissingAsZero(col) ==
    IF Len(col) = 0 THEN NaN ELSE RatDiv(SumCells(col, Len(col)), Len(col))

\* Series.mean(): the mean of the present values, NaN when there is none.
Mean(col) ==
    IF Count(col) = 0 THEN NaN ELSE RatDiv(SumCells(col, Len(col)), Count(col))

\* Series.fillna(v): a NaN value fills nothing.
FillNa(col, v) == [i \in DOMAIN col |-> IF IsNull(col[i]) THEN v ELSE col[i]]

----------------------------------------------------------------------------
\* pd.read_csv on the parsed records of the response text.

\* The order of Python strings among the texts the model uses.
StrRank(s) ==
    CASE s = "2020-01-01" -> 1
      [] s = "2020-01-02" -> 2
      [] s = "a" -> 3
      [] s = "b" -> 4
      [] s = "tbd" -> 5
      [] OTHER -> 0

Csv(header, recs) == [header |-> header, recs |-> recs]

\* Type inference of column j: text anywhere makes it object; a numeric column with
\* an empty field is float64, without one int64; a column of no rows is object.
InferDtype(csv, j) ==
    IF Len(csv.recs) = 0 \/ \E i \in 1..Len(csv.recs) : csv.recs[i][j].k = "str"
    THEN "object"
    ELSE IF \E i \in 1..Len(csv.recs) : csv.recs[i][j].k = "empty"
         THEN "float64"
         ELSE "int64"

ReadField(f) == IF f.k = "empty" THEN NaN ELSE f

read_csv(csv) ==
    DataFrame(csv.header,
              [j \in 1..Len(csv.header) |-> InferDtype(csv, j)],
              [i \in 1..Len(csv.recs) |->
                  [j \in 1..Len(csv.header) |-> ReadField(csv.recs[i][j])]])

----------------------------------------------------------------------------
\* transform_data, step by step

IsNumber(dt) == dt \in {"int64", "float64"}

\* Lines 56-59: each numeric column with a missing value is filled with its mean.
FillNumericColumn(df, j) ==
    IF IsNumber(df.dtypes[j]) /\ HasNull(Column(df, j))
    THEN FillNa(Column(df, j), Mean(Column(df, j)))
    ELSE Column(df, j)

FillNumeric(df) ==
    [df EXCEPT !.rows = [i \in 1..Len(df.rows) |->
                            [j \in 1..NCols(df) |-> FillNumericColumn(df, j)[i]]],
               !.dtypes = [j \in 1..NCols(df) |->
                            IF IsNumber(df.dtypes[j]) /\ HasNull(Column(df, j))
                            THEN "float64" ELSE df.dtypes[j]]]

Occurrences(col, c) == Cardinality({i \in DOMAIN col : col[i] = c})

\* Series.mode()[0]: the most frequent present value, the least of them on a tie.
Mode(col) ==
    LET present == {col[i] : i \in {i \in DOMAIN col : ~IsNull(col[i])}}
        best == {c \in present : \A e \in present :
                                    Occurrences(col, e) <= Occurrences(col, c)}
    IN  CHOOSE c \in best : \A e \in best : StrRank(c.s) <= StrRank(e.s)

\* Lines 62-66: each object column with a missing value is filled with its mode.
FillObjectColumn(df, j) ==
    IF df.dtypes[j] = "object" /\ HasNull(Column(df, j))
    THEN FillNa(Column(df, j), Mode(Column(df, j)))
    ELSE Column(df, j)

\* No categorical fill.
FillObjectSkipped(df) == df

FillObject(df) ==
    [df EXCEPT !.rows = [i \in 1..Len(df.rows) |->
                            [j \in 1..NCols(df) |-> FillObjectColumn(df, j)[i]]]]

RECURSIVE KeepFirst(_, _)
\* The rows among rows[1..i] that equal no earlier row, in order.
KeepFirst(rows, i) ==
    IF i = 0 THEN <<>>
    ELSE IF \E h \in 1..(i - 1) : rows[h] = rows[i]
         THEN KeepFirst(rows, i - 1)
         ELSE Append(KeepFirst(rows, i - 1), rows[i])

RECURSIVE KeepFirstByKey(_, _)
\* As KeepFirst, comparing the first column only.
KeepFirstByKey(rows, i) ==
    IF i = 0 THEN <<>>
    ELSE IF \E h \in 1..(i - 1) : rows[h][1] = rows[i][1]
         THEN KeepFirstByKey(rows, i - 1)
         ELSE Append(KeepFirstByKey(rows, i - 1), rows[i])

DropDuplicatesOnFirstColumn(df) ==
    [df EXCEPT !.rows = KeepFirstByKey(df.rows, Len(df.rows))]

\* Line 70: drop_duplicates keeps the first of each group of equal rows.
DropDuplicates(df) == [df EXCEPT !.rows = KeepFirst(df.rows, Len(df.rows))]

IsDateText(s) == s \in {"2020-01-01", "2020-01-02"}

\* pd.to_datetime(..., errors='coerce') on one value: a date text becomes its
\* timestamp, a number that many nanoseconds after the epoch, anything else NaT.
ToDatetime(c) ==
    CASE c.k = "str" /\ IsDateText(c.s) -> Timestamp(c.s, 0)
      [] c.k = "num" -> Timestamp("1970-01-01", c.n \div c.d)
      [] c.k = "date" -> c
      [] OTHER -> NaT

DateIndex(df) == CHOOSE j \in 1..NCols(df) : df.columns[j] = "Date"

HasDate(df) == \E j \in 1..NCols(df) : df.columns[j] = "Date"

\* Lines 76-81: the column named Date is converted to timestamps.
ConvertDate(df) ==
    IF HasDate(df)
    THEN SetColumn(df, DateIndex(df),
                   [i \in 1..Len(df.rows) |-> ToDatetime(df.rows[i][DateIndex(df)])],
                   "datetime64")
    ELSE df

transform_data(df) ==
    IF df = None THEN None
    ELSE ConvertDate(DropDuplicates(FillObject(FillNumeric(df))))

----------------------------------------------------------------------------
\* extract_data_from_url

\* What the GET of the source URL meets: "csv" is a 2xx response whose body parses,
\* "empty" one with no columns to parse, "malformed" one read_csv rejects,
\* "HTTPError" a 4xx/5xx status, "ConnectionError" no response at all.
Response(kind, csv) == [kind |-> kind, csv |-> csv]

NoCsv == Csv(<<>>, <<>>)

FailureKinds == {"ConnectionError", "HTTPError", "empty", "malformed"}

\* Lines 22-36: the frame on success, None from each of the three handlers.
extract_data_from_url(resp) ==
    IF resp.kind = "csv" THEN read_csv(resp.csv) ELSE None

ExtractLog(resp) ==
    <<"Attempting to download data from",
      CASE resp.kind = "csv" -> "Successfully extracted data from URL"
        [] resp.kind \in {"ConnectionError", "HTTPError"} ->
               "Error downloading data from URL"
        [] resp.kind = "empty" -> "Error: Empty data received from URL"
        [] OTHER -> "An unexpected error occurred during extraction">>

----------------------------------------------------------------------------
\* load_data and the store

NoTable == [exists |-> FALSE, columns |-> <<>>, rows |-> <<>>]

Table(columns, rows) == [exists |-> TRUE, columns |-> columns, rows |-> rows]

\* A missing value is written as NULL.
StoreCell(c) == IF IsNull(c) THEN Null ELSE c

StoreRows(df) ==
    [i \in 1..Len(df.rows) |-> [j \in 1..NCols(df) |-> StoreCell(df.rows[i][j])]]

\* if_exists='append'.
to_sql_append(tbl, df) ==
    IF tbl.exists THEN Table(tbl.columns, tbl.rows \o StoreRows(df))
    ELSE Table(df.columns, StoreRows(df))

\* Line 109: if_exists='replace' drops a table of that name and writes the frame.
to_sql(tbl, df) == Table(df.columns, StoreRows(df))

\* What a write that fails can leave behind: the table as it was, the table
\* dropped, or the new table created and still empty (the store decides).
FailedWrite(tbl, df) == {tbl, NoTable, Table(df.columns, <<>>)}

\* "ok", or the exception of create_engine (ArgumentError: bad connection
\* string) or of to_sql (OperationalError: the write fails).
StoreEvents == {"ok", "ArgumentError", "OperationalError"}

\* No sentinel check.
LoadSkipsNothing(d) == FALSE

\* Line 103: if df is None.
LoadSkips(d) == d = None

\* A handler for the write's exception alone.
LoadCatchesWriteErrorsOnly(exc) == exc = "OperationalError"

\* Line 111: except Exception catches whatever the store raises.
LoadCatches(exc) == exc \in {"ArgumentError", "OperationalError"}

\* The table after load_data's try block, given what the store does.
StoreAfter(tbl, df, ev) ==
    CASE ev = "ok" -> {to_sql(tbl, df)}
      [] ev = "ArgumentError" -> {tbl}
      [] OTHER -> FailedWrite(tbl, df)

StoreCalls(ev) ==
    IF ev = "ArgumentError" THEN <<"create_engine">> ELSE <<"create_engine", "to_sql">>

LoadLog(ev) ==
    IF ev = "ok" THEN "Successfully loaded data into table"
    ELSE "An error occurred during loading data to database"

----------------------------------------------------------------------------
\* The schedule library's daily job

\* Ticks in a day (a scaled-down 86400 seconds).
DayLen == 3

\* Last clock value at which the loop still sleeps.
MaxTime == 7

\* Longest run of the pipeline, in ticks (requests.get has no timeout: a run may
\* outlast a day).
MaxRunTime == 3

TimeOfDay(t) == t % DayLen

Day(t) == t \div DayLen

\* every().day.at(at): the first instant strictly after t whose time of day is at.
NextRunAfter(t, at) ==
    CHOOSE r \in (t + 1)..(t + DayLen) : TimeOfDay(r) = at

\* A job that is always due.
ShouldRunAlways(t, next) == TRUE

\* Job.should_run, read by run_pending.
ShouldRun(t, next) == t >= next

\* A loop that ends when the job falls due.
WhileNotDue(t, next) == t < next

\* Lines 160 and 164: while True.
WhileTrue(t, next) == TRUE

\* No sentinel check after extract.
ExtractNeverAborts(d) == FALSE

\* Line 129: if raw_data is None.
ExtractAborts(d) == d = None

\* Extract again after a failed extract.
AfterExtractRetries(d) == IF ExtractAborts(d) THEN "extract" ELSE "transform"

\* Lines 129-134: return on the sentinel, go on to transform otherwise.
AfterExtract(d) == IF ExtractAborts(d) THEN "job_done" ELSE "transform"

\* Line 135: if transformed_data is None.
TransformAborts(d) == d = None

----------------------------------------------------------------------------
\* State

VARIABLES
    pc,               \* where the process is: the line about to run
    loop,             \* which of the two polling loops of schedule_etl_pipeline
    now,              \* the wall clock, in ticks
    at_time,          \* schedule_time, as a time of day
    next_run,         \* the job's next_run
    registered_at,    \* the clock when the job was registered (-1 before)
    response,         \* what the last GET met
    raw_data,         \* run_etl_pipeline's raw_data
    transformed_data, \* run_etl_pipeline's transformed_data
    df,               \* the frame a directly called transform_data / load_data works on
    table,            \* the destination table in the store
    log,              \* the console lines of the current run (or direct call)
    calls,            \* the calls made in the current run, in order
    path,             \* the stages of the current run, in order
    table0,           \* the table when the current run began
    store_event,      \* what the store did in the current run's load ("none" before)
    prev_failed,      \* whether the run before the current one met a store failure
    last_loaded,      \* the frame of the most recent successful write (None before)
    dirty,            \* a write has failed since the most recent successful one
    initial_table,    \* the table when the process started
    invoked,          \* invocations of run_etl_pipeline by the latest run_pending
    polled_at,        \* the clock at the latest run_pending (-1 before)
    runs_today,       \* invocations of run_etl_pipeline on the current day
    exit_cause        \* why the process ended ("" while it runs)

sched_vars == <<loop, now, at_time, next_run, registered_at, invoked, polled_at,
                runs_today, exit_cause>>

run_vars == <<response, raw_data, transformed_data, path, prev_failed>>

store_vars == <<table, table0, store_event, last_loaded, dirty, initial_table>>

vars == <<pc, sched_vars, run_vars, store_vars, df, log, calls>>

----------------------------------------------------------------------------
\* Inputs

\* The CSV of the end-to-end scenario: Date,Value / 2020-01-01,10 / ,20 / 2020-01-01,10
ScenarioCsv ==
    Csv(<<"Date", "Value">>,
        << <<Str("2020-01-01"), Num(10)>>,
           <<Empty, Num(20)>>,
           <<Str("2020-01-01"), Num(10)>> >>)

CleanCsv ==
    Csv(<<"Name", "Score">>, << <<Str("a"), Num(1)>>, <<Str("b"), Num(2)>> >>)

\* What the source URL may answer in a scheduled run.
Feeds ==
    {Response("csv", ScenarioCsv), Response("csv", CleanCsv)}
        \cup {Response(k, NoCsv) : k \in FailureKinds}

\* A table left by an earlier process.
OldTable == Table(<<"Date", "Value">>, << <<Timestamp("2019-12-31", 0), Num(5)>> >>)

Headers == {<<"Date", "Value">>, <<"Name", "Score">>}

Alphabet(name) ==
    CASE name = "Date" -> {Empty, Str("2020-01-01"), Str("2020-01-02"), Str("tbd")}
      [] name = "Value" -> {Empty, Num(10), Num(20)}
      [] name = "Name" -> {Empty, Str("a"), Str("b")}
      [] OTHER -> {Empty, Num(1), Num(2)}

\* The rows a CSV with header h may hold.
Records(h) == Alphabet(h[1]) \X Alphabet(h[2])

----------------------------------------------------------------------------
\* Console lines of transform_data (lines 53-89), without the column names.

Repeat(k, msg) == [i \in 1..k |-> msg]

TransformLog(d) ==
    LET filled == FillObject(FillNumeric(d))
        nnum == Cardinality({j \in 1..NCols(d) :
                    IsNumber(d.dtypes[j]) /\ HasNull(Column(d, j))})
        nobj == Cardinality({j \in 1..NCols(d) :
                    d.dtypes[j] = "object" /\ HasNull(Column(d, j))})
        out == transform_data(d)
    IN  <<"Starting data transformation...">>
        \o Repeat(nnum, "Filled missing numerical values with mean.")
        \o Repeat(nobj, "Filled missing categorical values with mode.")
        \o (IF Len(DropDuplicates(filled).rows) < Len(filled.rows)
            THEN <<"Removed duplicate rows.">> ELSE <<>>)
        \o (IF ~HasDate(d) THEN <<>>
            ELSE IF HasNull(Column(out, DateIndex(out)))
                 THEN <<"Warning: Some 'Date' values could not be converted to datetime.">>
                 ELSE <<"Converted 'Date' to datetime format.">>)
        \o <<"Data transformation complete.">>

----------------------------------------------------------------------------
\* The scheduled process

Init ==
    /\ pc = "register"
    /\ loop = 1
    /\ now \in 0..(DayLen - 1)
    /\ at_time \in 0..(DayLen - 1)
    /\ next_run = -1
    /\ registered_at = -1
    /\ response = Response("none", NoCsv)
    /\ raw_data = None
    /\ transformed_data = None
    /\ df = None
    /\ table \in {NoTable, OldTable}
    /\ table0 = table
    /\ initial_table = table
    /\ log = <<>>
    /\ calls = <<>>
    /\ path = <<>>
    /\ store_event = "none"
    /\ prev_failed = FALSE
    /\ last_loaded = None
    /\ dirty = FALSE
    /\ invoked = 0
    /\ polled_at = -1
    /\ runs_today = 0
    /\ exit_cause = ""

\* Line 157: schedule.every().day.at(schedule_time).do(run_etl_pipeline, ...)
Register ==
    /\ pc = "register"
    /\ next_run' = NextRunAfter(now, at_time)
    /\ registered_at' = now
    /\ pc' = "while"
    /\ UNCHANGED <<loop, now, at_time, invoked, polled_at, runs_today, exit_cause,
                   run_vars, store_vars, df, log, calls>>

\* Lines 160 and 164: the head of the polling loop.  Leaving the first loop enters
\* the try block with the second; leaving the second returns.
LoopHead ==
    /\ pc = "while"
    /\ IF WhileTrue(now, next_run)
       THEN pc' = "run_pending" /\ UNCHANGED <<loop, exit_cause>>
       ELSE IF loop = 1
            THEN pc' = "while" /\ loop' = 2 /\ UNCHANGED exit_cause
            ELSE pc' = "exited" /\ exit_cause' = "return" /\ UNCHANGED loop
    /\ UNCHANGED <<now, at_time, next_run, registered_at, invoked, polled_at,
                   runs_today, run_vars, store_vars, df, log, calls>>

\* Lines 161 and 165: schedule.run_pending() starts the job when it is due
\* (line 125 of run_etl_pipeline), and otherwise does nothing.
RunPending ==
    /\ pc = "run_pending"
    /\ polled_at' = now
    /\ IF ShouldRun(now, next_run)
       THEN /\ pc' = "extract"
            /\ invoked' = 1
            /\ runs_today' = runs_today + 1
            /\ path' = <<"START">>
            /\ calls' = <<"run_etl_pipeline">>
            /\ log' = <<"ETL pipeline started">>
            /\ raw_data' = None
            /\ transformed_data' = None
            /\ prev_failed' = (store_event \in {"ArgumentError", "OperationalError"})
            /\ store_event' = "none"
            /\ table0' = table
            /\ UNCHANGED <<response, table, last_loaded, dirty, initial_table>>
       ELSE /\ pc' = "sleep"
            /\ invoked' = 0
            /\ UNCHANGED <<runs_today, run_vars, store_vars, log, calls>>
    /\ UNCHANGED <<loop, now, at_time, next_run, registered_at, exit_cause, df>>

\* Lines 128-131: extract, and abort on the sentinel.
Extract ==
    /\ pc = "extract"
    /\ \E resp \in Feeds :
         LET d == extract_data_from_url(resp) IN
         /\ response' = resp
         /\ raw_data' = d
         /\ calls' = Append(calls, "extract_data_from_url")
         /\ IF ExtractAborts(d)
            THEN /\ log' = log \o ExtractLog(resp)
                        \o <<"ETL pipeline aborted due to extraction errors.">>
                 /\ path' = path \o <<"EXTRACT", "ABORT">>
            ELSE /\ log' = log \o ExtractLog(resp)
                 /\ path' = Append(path, "EXTRACT")
         /\ pc' = AfterExtract(d)
    /\ UNCHANGED <<sched_vars, transformed_data, prev_failed, store_vars, df>>

\* Lines 134-137: transform a copy, and abort on the sentinel.  None has no copy():
\* the AttributeError is caught nowhere and ends the process.
Transform ==
    /\ pc = "transform"
    /\ IF raw_data = None
       THEN /\ pc' = "exited"
            /\ exit_cause' = "AttributeError"
            /\ UNCHANGED <<transformed_data, calls, log, path>>
       ELSE LET d == transform_data(raw_data) IN
            /\ transformed_data' = d
            /\ calls' = Append(calls, "transform_data")
            /\ UNCHANGED exit_cause
            /\ IF TransformAborts(d)
               THEN /\ log' = log \o TransformLog(raw_data)
                        \o <<"ETL pipeline aborted due to transformation errors.">>
                    /\ path' = path \o <<"TRANSFORM", "ABORT">>
                    /\ pc' = "job_done"
               ELSE /\ log' = log \o TransformLog(raw_data)
                    /\ path' = Append(path, "TRANSFORM")
                    /\ pc' = "load"
    /\ UNCHANGED <<loop, now, at_time, next_run, registered_at, invoked, polled_at,
                   runs_today, response, raw_data, prev_failed, store_vars, df>>

\* load_data(d, db_url, table_name), lines 103-112, when the store does ev and
\* leaves tbl; Raised tells whether an exception leaves load_data.
load_data(d, ev, tbl) ==
    IF LoadSkips(d)
    THEN /\ log' = Append(log, "No data to load.")
         /\ calls' = Append(calls, "load_data")
         /\ UNCHANGED <<table, store_event, last_loaded, dirty>>
    ELSE /\ calls' = Append(calls, "load_data") \o StoreCalls(ev)
         /\ table' = tbl
         /\ store_event' = ev
         /\ last_loaded' = IF ev = "ok" THEN d ELSE last_loaded
         /\ dirty' = IF ev = "ok" THEN FALSE
                     ELSE IF ev = "OperationalError" THEN TRUE ELSE dirty
         /\ log' = IF ev = "ok" \/ LoadCatches(ev)
                   THEN Append(log, LoadLog(ev)) ELSE log

Raised(d, ev) == ~LoadSkips(d) /\ ev # "ok" /\ ~LoadCatches(ev)

\* Line 140: load_data(transformed_data, db_url, table_name).
Load ==
    /\ pc = "load"
    /\ \E ev \in StoreEvents :
         \E tbl \in StoreAfter(table, transformed_data, ev) :
            /\ load_data(transformed_data, ev, tbl)
            /\ IF Raised(transformed_data, ev)
               THEN /\ pc' = "exited"
                    /\ exit_cause' = ev
                    /\ path' = Append(path, "LOAD")
               ELSE /\ pc' = "finish"
                    /\ UNCHANGED exit_cause
                    /\ path' = Append(path, "LOAD")
    /\ UNCHANGED <<loop, now, at_time, next_run, registered_at, invoked, polled_at,
                   runs_today, response, raw_data, transformed_data, prev_failed,
                   table0, initial_table, df>>

\* Line 142: the closing line of a run that reached the end.
Finish ==
    /\ pc = "finish"
    /\ log' = Append(log, "ETL pipeline finished")
    /\ path' = Append(path, "DONE")
    /\ pc' = "job_done"
    /\ UNCHANGED <<sched_vars, response, raw_data, transformed_data, prev_failed,
                   store_vars, df, calls>>

RunsOn(t, u) == IF Day(t) = Day(u) THEN runs_today ELSE 0

\* The job has returned after some time: schedule notes last_run and sets next_run.
JobDone ==
    /\ pc = "job_done"
    /\ \E d \in 0..MaxRunTime :
         /\ now' = now + d
         /\ next_run' = NextRunAfter(now + d, at_time)
         /\ runs_today' = RunsOn(now, now + d)
    /\ pc' = "sleep"
    /\ UNCHANGED <<loop, at_time, registered_at, invoked, polled_at, exit_cause,
                   run_vars, store_vars, df, log, calls>>

\* Lines 162 and 166: time.sleep(1)
Sleep ==
    /\ pc = "sleep"
    /\ now < MaxTime
    /\ now' = now + 1
    /\ runs_today' = RunsOn(now, now + 1)
    /\ pc' = "while"
    /\ UNCHANGED <<loop, at_time, next_run, registered_at, invoked, polled_at,
                   exit_cause, run_vars, store_vars, df, log, calls>>

\* Ctrl-C.  Only the second loop stands in a try block (lines 163-171); its handler
\* prints and calls sys.exit, and sys is not imported (lines 1-7): NameError.
\* Anywhere else the KeyboardInterrupt is caught by nothing.
Interrupt ==
    /\ pc # "exited"
    /\ pc' = "exited"
    /\ IF loop = 2
       THEN /\ log' = Append(log, "KeyboardInterrupt detected. Shutting down scheduler gracefully...")
            /\ exit_cause' = "NameError"
       ELSE /\ exit_cause' = "KeyboardInterrupt"
            /\ UNCHANGED log
    /\ UNCHANGED <<loop, now, at_time, next_run, registered_at, invoked, polled_at,
                   runs_today, run_vars, store_vars, df, calls>>

Next ==
    \/ Register
    \/ LoopHead
    \/ RunPending
    \/ Extract
    \/ Transform
    \/ Load
    \/ Finish
    \/ JobDone
    \/ Sleep
    \/ Interrupt

Spec == Init /\ [][Next]_vars

----------------------------------------------------------------------------
\* The three stage functions called directly, one after the other, on every small
\* CSV and on a failed download: extract_data_from_url, then transform_data
\* statement by statement, then load_data on whatever transform_data returned.

InitUnit ==
    /\ pc = "unit_request"
    /\ loop = 1
    /\ now = 0
    /\ at_time = 0
    /\ next_run = -1
    /\ registered_at = -1
    /\ response \in {Response("csv", Csv(h, <<>>)) : h \in Headers}
                       \cup {Response("ConnectionError", NoCsv)}
    /\ raw_data = None
    /\ transformed_data = None
    /\ df = None
    /\ table \in {NoTable, OldTable}
    /\ table0 = table
    /\ initial_table = table
    /\ log = <<>>
    /\ calls = <<>>
    /\ path = <<>>
    /\ store_event = "none"
    /\ prev_failed = FALSE
    /\ last_loaded = None
    /\ dirty = FALSE
    /\ invoked = 0
    /\ polled_at = -1
    /\ runs_today = 0
    /\ exit_cause = ""

\* The body of the response grows by one record, up to MaxRows.
UnitReceive ==
    /\ pc = "unit_request"
    /\ response.kind = "csv"
    /\ Len(response.csv.recs) < MaxRows
    /\ \E r \in Records(response.csv.header) :
         response' = Response("csv", Csv(response.csv.header,
                                         Append(response.csv.recs, r)))
    /\ UNCHANGED <<pc, sched_vars, raw_data, transformed_data, path, prev_failed,
                   store_vars, df, log, calls>>

\* extract_data_from_url(url), lines 21-36.
UnitExtract ==
    /\ pc = "unit_request"
    /\ raw_data' = extract_data_from_url(response)
    /\ df' = extract_data_from_url(response)
    /\ log' = ExtractLog(response)
    /\ calls' = <<"extract_data_from_url">>
    /\ pc' = "fill_numeric"
    /\ UNCHANGED <<sched_vars, response, transformed_data, path, prev_failed,
                   store_vars>>

\* transform_data(df), lines 50-59: the sentinel is returned at once.
UnitFillNumeric ==
    /\ pc = "fill_numeric"
    /\ IF df = None
       THEN pc' = "unit_load" /\ UNCHANGED df
       ELSE pc' = "fill_object" /\ df' = FillNumeric(df)
    /\ calls' = Append(calls, "transform_data")
    /\ UNCHANGED <<sched_vars, run_vars, store_vars, log>>

\* Lines 61-66.
UnitFillObject ==
    /\ pc = "fill_object"
    /\ df' = FillObject(df)
    /\ pc' = "drop_duplicates"
    /\ UNCHANGED <<sched_vars, run_vars, store_vars, log, calls>>

\* Lines 68-72.
UnitDropDuplicates ==
    /\ pc = "drop_duplicates"
    /\ df' = DropDuplicates(df)
    /\ pc' = "convert_date"
    /\ UNCHANGED <<sched_vars, run_vars, store_vars, log, calls>>

\* Lines 74-90.
UnitConvertDate ==
    /\ pc = "convert_date"
    /\ df' = ConvertDate(df)
    /\ log' = log \o TransformLog(raw_data)
    /\ pc' = "unit_load"
    /\ UNCHANGED <<sched_vars, run_vars, store_vars, calls>>

\* load_data(df, db_url, table_name), lines 103-112.
UnitLoad ==
    /\ pc = "unit_load"
    /\ \E ev \in StoreEvents :
         \E tbl \in StoreAfter(table, df, ev) :
            /\ load_data(df, ev, tbl)
            /\ IF Raised(df, ev)
               THEN pc' = "exited" /\ exit_cause' = ev
               ELSE pc' = "returned" /\ UNCHANGED exit_cause
    /\ UNCHANGED <<loop, now, at_time, next_run, registered_at, invoked, polled_at,
                   runs_today, run_vars, table0, initial_table, df>>

NextUnit ==
    \/ UnitReceive
    \/ UnitExtract
    \/ UnitFillNumeric
    \/ UnitFillObject
    \/ UnitDropDuplicates
    \/ UnitConvertDate
    \/ UnitLoad

SpecUnit == InitUnit /\ [][NextUnit]_vars

----------------------------------------------------------------------------
\* Properties

IsPrefix(s, u) == Len(s) <= Len(u) /\ \A i \in 1..Len(s) : s[i] = u[i]

Last(s) == s[Len(s)]

Times(s, x) == Cardinality({i \in 1..Len(s) : s[i] = x})

\* The table that holds exactly the rows of frame d.
Holding(d) == Table(d.columns, StoreRows(d))

FullPath == <<"START", "EXTRACT", "TRANSFORM", "LOAD", "DONE">>

\* The current run's extract has returned the sentinel.
ExtractGaveNone == Len(path) >= 2 /\ raw_data = None

\* C1: a run whose extract returns the sentinel logs the abort-at-extract line and
\* returns; it calls neither transform_data nor load_data, and the destination
\* table is as it was when the run began.
C1_SentinelAbortsAtExtract ==
    ExtractGaveNone =>
        /\ path = <<"START", "EXTRACT", "ABORT">>
        /\ calls = <<"run_etl_pipeline", "extract_data_from_url">>
        /\ Last(log) = "ETL pipeline aborted due to extraction errors."
        /\ table = table0
        /\ store_event = "none"
        /\ pc \in {"job_done", "sleep", "while", "run_pending", "exited"}
        /\ exit_cause \in {"", "KeyboardInterrupt"}

\* An aborted run that began with a table written by an earlier run.
C1_Witness ==
    /\ ExtractGaveNone
    /\ response.kind = "HTTPError"
    /\ last_loaded # None
    /\ table.exists
    /\ pc = "sleep"

\* C2: within one invocation the stages come in the order START, EXTRACT,
\* TRANSFORM, LOAD, DONE, none twice; load_data is called at most once, and only
\* after extract and transform each returned a frame; an abort ends the invocation.
C2_StagesInOrder ==
    /\ \/ IsPrefix(path, FullPath)
       \/ path = <<"START", "EXTRACT", "ABORT">>
       \/ path = <<"START", "EXTRACT", "TRANSFORM", "ABORT">>
    /\ IsPrefix(calls, <<"run_etl_pipeline", "extract_data_from_url", "transform_data",
                         "load_data", "create_engine", "to_sql">>)
    /\ Times(calls, "load_data") <= 1
    /\ Times(calls, "load_data") = 1 => raw_data # None /\ transformed_data # None
    /\ (path # <<>> /\ Last(path) = "ABORT") =>
           pc \in {"job_done", "sleep", "while", "run_pending", "exited"}

\* A run that went through every stage, after an earlier run of the same process.
C2_Witness ==
    /\ path = FullPath
    /\ Times(calls, "load_data") = 1
    /\ Day(polled_at) >= 1
    /\ last_loaded # None
    /\ pc = "job_done"

\* C3 (as amended): after a run whose write succeeded the table holds exactly the
\* rows of that run's transformed frame; and as long as no write has failed since
\* the most recent successful one, the table holds its initial contents (no
\* successful write yet) or the frame of the most recent successful write.
C3_TableIsLatestDataset ==
    /\ store_event = "ok" => table = Holding(transformed_data)
    /\ ~dirty => table = IF last_loaded = None THEN initial_table
                         ELSE Holding(last_loaded)

\* C3 as stated: after any sequence of runs the table holds its initial contents or
\* the frame of the most recent successful write.
C3_AsStated ==
    \/ table = initial_table
    \/ last_loaded # None /\ table = Holding(last_loaded)

\* A successful write over the different frame of an earlier successful run.
C3_Witness ==
    /\ store_event = "ok"
    /\ pc = "job_done"
    /\ table0.exists
    /\ table0 # initial_table
    /\ table0.columns # table.columns
    /\ Len(table.rows) = 2

\* C4: load_data called with the sentinel opens no connection and writes nothing:
\* the table is unchanged and the only line it logs is "No data to load.".
C4_SentinelIsNotLoaded ==
    (pc \in {"returned", "exited"} /\ df = None) =>
        /\ table = table0
        /\ calls = <<"extract_data_from_url", "transform_data", "load_data">>
        /\ log = ExtractLog(response) \o <<"No data to load.">>
        /\ store_event = "none"
        /\ pc = "returned"

C4_Witness ==
    /\ pc = "returned"
    /\ df = None
    /\ raw_data = None
    /\ table = OldTable
    /\ Times(calls, "load_data") = 1

ScenarioRan ==
    /\ response = Response("csv", ScenarioCsv)
    /\ Len(path) >= 3
    /\ path[3] = "TRANSFORM"

\* C5 (as amended): for the CSV Date,Value / 2020-01-01,10 / ,20 / 2020-01-01,10
\* the missing Date is filled with the column's most frequent text, 2020-01-01, and
\* then parsed; the duplicate row is removed; Value is unchanged; load_data
\* receives the 2 rows (2020-01-01, 10), (2020-01-01, 20) in 2 columns and the
\* table is replaced with exactly them.
C5_ScenarioResult ==
    ScenarioRan =>
        /\ transformed_data.columns = <<"Date", "Value">>
        /\ transformed_data.rows =
              << <<Timestamp("2020-01-01", 0), Num(10)>>,
                 <<Timestamp("2020-01-01", 0), Num(20)>> >>
        /\ store_event = "ok" =>
              table = Table(<<"Date", "Value">>,
                            << <<Timestamp("2020-01-01", 0), Num(10)>>,
                               <<Timestamp("2020-01-01", 0), Num(20)>> >>)

\* C5 as stated: 2 rows remain, Value is unchanged, and the missing Date is the
\* missing-date marker in the output.
C5_AsStated ==
    ScenarioRan =>
        /\ Len(transformed_data.rows) = 2
        /\ transformed_data.rows[1] = <<Timestamp("2020-01-01", 0), Num(10)>>
        /\ transformed_data.rows[2] = <<NaT, Num(20)>>

C5_Witness ==
    /\ ScenarioRan
    /\ store_event = "ok"
    /\ table0 = OldTable
    /\ table # OldTable
    /\ pc = "job_done"

Ticked == polled_at >= 0

\* C6 (as amended): run_pending invokes run_etl_pipeline at most once per tick, and
\* only on a tick whose time of day is the trigger's; on every tick later than the
\* instant of registration whose time of day is the trigger's it invokes it exactly
\* once; the pipeline runs at most once per calendar day.  (The job's first
\* next_run is strictly after the registration, so a tick in the very instant of a
\* registration made at the trigger time invokes nothing.)
C6_InvokedWhenDue ==
    /\ invoked \in {0, 1}
    /\ (Ticked /\ invoked = 1) => TimeOfDay(polled_at) = at_time
    /\ (Ticked /\ polled_at > registered_at /\ TimeOfDay(polled_at) = at_time) =>
           invoked = 1
    /\ runs_today <= 1

\* C6 as stated: on every tick whose clock time matches the trigger the pipeline is
\* invoked exactly once, on every other tick not at all.
C6_AsStated ==
    Ticked => (invoked = 1 <=> TimeOfDay(polled_at) = at_time)

\* The second daily run of a process, started by a tick at the trigger time.
C6_Witness ==
    /\ pc = "extract"
    /\ invoked = 1
    /\ polled_at = now
    /\ TimeOfDay(now) = at_time
    /\ Day(now) >= 1
    /\ last_loaded # None

StoreFailed == store_event \in {"ArgumentError", "OperationalError"}

\* C7: a store failure inside load_data is logged there and load_data returns; the
\* run goes on to its closing line and raises nothing to the scheduler, whose loop
\* keeps polling; the run that follows a failed one starts at START on its due tick
\* and goes through the stages like any other.
C7_StoreFailureAbsorbed ==
    /\ exit_cause \in {"", "KeyboardInterrupt"}
    /\ StoreFailed =>
          /\ IsPrefix(<<"START", "EXTRACT", "TRANSFORM", "LOAD">>, path)
          /\ "An error occurred during loading data to database" \in
                 {log[i] : i \in 1..Len(log)}
          /\ pc \in {"finish", "job_done", "sleep", "while", "run_pending", "exited"}
          /\ pc \in {"job_done", "sleep", "while", "run_pending"} =>
                 /\ path = FullPath
                 /\ Last(log) = "ETL pipeline finished"
          /\ (pc = "run_pending" /\ TimeOfDay(now) = at_time) => ShouldRun(now, next_run)
    /\ prev_failed =>
          /\ \/ IsPrefix(path, FullPath)
             \/ path = <<"START", "EXTRACT", "ABORT">>
          /\ store_event = "ok" => table = Holding(transformed_data)

\* The run after a failed one has loaded its frame.
C7_Witness ==
    /\ prev_failed
    /\ store_event = "ok"
    /\ path = FullPath
    /\ pc = "job_done"

\* C9: the polling loop never ends on its own: the process stays in the first loop,
\* going from run_pending to sleep and back, until an interrupt ends it; the second
\* loop and its interrupt handler are never reached, so the interrupt ends the
\* process by the uncaught KeyboardInterrupt, without the graceful line.
C9_FirstLoopForever ==
    /\ loop = 1
    /\ pc = "exited" <=> exit_cause = "KeyboardInterrupt"
    /\ "KeyboardInterrupt detected. Shutting down scheduler gracefully..." \notin
           {log[i] : i \in 1..Len(log)}
    /\ pc \in {"register", "while", "run_pending", "extract", "transform", "load",
               "finish", "job_done", "sleep", "exited"}

\* An interrupt ends a process that has been polling for more than a day.
C9_Witness ==
    /\ pc = "exited"
    /\ exit_cause = "KeyboardInterrupt"
    /\ Ticked
    /\ Day(now) >= 1
    /\ runs_today = 0

\* A frame with no missing value and no two equal rows.
Clean(d) ==
    /\ d # None
    /\ \A i \in 1..Len(d.rows) : \A j \in 1..NCols(d) : ~IsNull(d.rows[i][j])
    /\ \A i \in 1..Len(d.rows) : \A h \in 1..Len(d.rows) :
           d.rows[i] = d.rows[h] => i = h

\* transform_data has returned (load_data does not touch the frame).
Transformed == pc \in {"unit_load", "returned"}

\* The timestamp of a text of the Date column, NaT for a text that is no date.
Parsed(c) == IF IsDateText(c.s) THEN Timestamp(c.s, 0) ELSE NaT

\* C8 (as amended): for a frame with no missing value and no duplicate row,
\* transform_data returns the same columns and the same rows in the same order, and
\* every value outside a column named Date unchanged; the texts of a column named
\* Date are replaced by their timestamps, a text that is no date by the
\* missing-date marker.  Without a Date column the result equals the input.
C8_CleanFrameKept ==
    (Transformed /\ Clean(raw_data)) =>
        /\ df.columns = raw_data.columns
        /\ Len(df.rows) = Len(raw_data.rows)
        /\ \A i \in 1..Len(df.rows) : \A j \in 1..NCols(df) :
              df.rows[i][j] = IF df.columns[j] = "Date"
                              THEN Parsed(raw_data.rows[i][j])
                              ELSE raw_data.rows[i][j]
        /\ ~HasDate(raw_data) => df.rows = raw_data.rows

\* The same value, a date text and its timestamp counted as the same.
SameValue(a, b) == a = b \/ (a.k = "str" /\ b = Timestamp(a.s, 0))

\* C8 as stated: the result has the columns, the rows and the values of the input,
\* a Date column included (a date text and its timestamp counted as equal).
C8_AsStated ==
    (Transformed /\ Clean(raw_data)) =>
        /\ df.columns = raw_data.columns
        /\ Len(df.rows) = Len(raw_data.rows)
        /\ \A i \in 1..Len(df.rows) : \A j \in 1..NCols(df) :
              SameValue(raw_data.rows[i][j], df.rows[i][j])

\* A clean frame of several rows with a Date column has been transformed.
C8_Witness ==
    /\ Transformed
    /\ Clean(raw_data)
    /\ HasDate(raw_data)
    /\ Len(raw_data.rows) >= 2
    /\ \E i \in 1..Len(df.rows) : df.rows[i][DateIndex(df)] = NaT

\* Lines 56-59 have just run: raw_data is the frame before, df the frame after.
NumericFilled == pc = "fill_object"

\* The numeric columns of the frame before that hold a missing value.
Gappy == {j \in 1..NCols(raw_data) :
             IsNumber(raw_data.dtypes[j]) /\ HasNull(Column(raw_data, j))}

\* The exact mean of the present values of a column that has some.
ExactMean(col) == RatDiv(SumCells(col, Len(col)), Count(col))

\* C10 (as amended): in every numeric column that holds missing values and at least
\* one present value, each missing value is replaced by the mean of the originally
\* present values, each present value is unchanged, and the mean of the column
\* after the fill equals the mean before (in exact arithmetic).  A numeric column
\* whose values are all missing has no mean and is left all missing.
C10_MeanFill ==
    NumericFilled =>
        \A j \in Gappy :
            LET before == Column(raw_data, j)
                after == Column(df, j)
            IN  IF Count(before) > 0
                THEN /\ \A i \in 1..Len(before) :
                           after[i] = IF IsNull(before[i]) THEN ExactMean(before)
                                      ELSE before[i]
                     /\ ExactMean(after) = ExactMean(before)
                ELSE after = before

\* C10 as stated: in every numeric column that holds missing values, one whose
\* values are all missing included, each missing value is replaced by a number.
C10_AsStated ==
    NumericFilled =>
        \A j \in Gappy : \A i \in 1..Len(df.rows) : df.rows[i][j].k = "num"

\* A column with a gap has been filled with a mean that is no whole number.
C10_Witness ==
    /\ NumericFilled
    /\ \E j \in Gappy : \E i \in 1..Len(df.rows) :
          /\ IsNull(raw_data.rows[i][j])
          /\ df.rows[i][j].k = "num"
          /\ df.rows[i][j].d > 1

=============================================================================
